---- MODULE Spec2Model ----
(***************************************************************************)
(* Model of the esp32-fft spectrum analyser: the capture/analysis loop of  *)
(* main.rs (the producer), the WebSocket handler of web_server.rs and the  *)
(* display loop of display.rs (the two readers), and the                   *)
(* RwLock<Arc<FFTData>> they share.                                        *)
(*                                                                         *)
(* Numbers.  f32 magnitudes are integers in units of 0.0001 (so the        *)
(* amplitude thresholds 0.0005 are 5 and IMPULSE_THRESHOLD 0.0012 is 12).  *)
(* f32 frequencies are exact rationals [n, d] (n/d Hz, d > 0); f32         *)
(* rounding is not modelled.  A spectrum [f32; 1024] is written sparsely:  *)
(* a function from the bins that are not zero to their magnitude.          *)
(***************************************************************************)
EXTENDS Integers, Sequences, FiniteSets, TLC

(***************************************************************************)
(* Program constants (constants.rs)                                        *)
(***************************************************************************)
SAMPLING_RATE == 48000
FFT_LENGTH == 2048
FREQUENCY_MAGNITUDE_LENGHT == FFT_LENGTH \div 2
FFT_LENGTH_BYTES == FFT_LENGTH * 4
LOW_FREQ_THRESHOLD == 5
HIGH_FREQ_THRESHOLD == 5
FREQUENCY_CUTOFF == 1000
IMPULSE_THRESHOLD == 12
IMPULSE_TIME_THRESHOLD == 100
\* literals of main.rs
MIN_IMPULSE_FREQUENCY == 100
PEAK_RANGE == 5
PEAK_WINDOW == 25

(***************************************************************************)
(* Bounds of the model                                                     *)
(***************************************************************************)
\* the millisecond timer is followed up to MaxNow
MaxNow == 212
\* with the readers running the timer is followed up to MaxSystemNow
MaxSystemNow == 111
\* Classify alone is given frequencies up to MaxClassifyHz, in steps of
\* 1/FrequencySteps Hz
MaxClassifyHz == 2900
FrequencySteps == 2
\* from the bring-up on the timer is followed up to MaxBootNow
MaxBootNow == 20
\* largest magnitude of a bin in the spectra given to find_peaks alone
MaxPeakMag == 2
\* largest magnitude of a bin in the spectra given to the peak scan alone
MaxScanMag == 7

(***************************************************************************)
(* Arithmetic helpers                                                      *)
(***************************************************************************)
Abs(x) == IF x < 0 THEN -x ELSE x

Min(a, b) == IF a < b THEN a ELSE b

Max(a, b) == IF a > b THEN a ELSE b

RECURSIVE Gcd(_, _)
Gcd(a, b) == IF b = 0 THEN a ELSE Gcd(b, a % b)

\* FREQ_BIN_WIDTH = SAMPLING_RATE / FFT_LENGTH as the reduced fraction 375/16
BinWidthNum == SAMPLING_RATE \div Gcd(SAMPLING_RATE, FFT_LENGTH)

BinWidthDen == FFT_LENGTH \div Gcd(SAMPLING_RATE, FFT_LENGTH)

\* a frequency n/d Hz, d > 0
Freq(n, d) == [n |-> n, d |-> d]

ZeroFreq == Freq(0, 1)

FreqLt(f, c) == f.n < c * f.d

FreqLe(f, c) == f.n <= c * f.d

FreqGt(f, c) == f.n > c * f.d

FreqGe(f, c) == f.n >= c * f.d

\* `i as f32 * FREQ_BIN_WIDTH`
BinFrequency(i) == Freq(i * BinWidthNum, BinWidthDen)

(***************************************************************************)
(* Spectra: magnitudes[i] of a sparse spectrum                             *)
(***************************************************************************)
Mag(m, i) == IF i \in DOMAIN m THEN m[i] ELSE 0

ZeroSpectrum == [i \in {} |-> 0]

RECURSIVE SumOver(_, _)
SumOver(m, S) ==
    IF S = {} THEN 0
    ELSE LET i == CHOOSE x \in S : TRUE IN m[i] + SumOver(m, S \ {i})

\* `magnitudes.iter().sum()`: the bins outside DOMAIN m add 0
SumMag(m) == SumOver(m, DOMAIN m)

(***************************************************************************)
(* Adaptive peak selection, main.rs 196-211                                *)
(***************************************************************************)
\* the threshold of bin i's band, main.rs 201-206
Threshold(i) ==
    IF FreqLt(BinFrequency(i), FREQUENCY_CUTOFF)
    THEN LOW_FREQ_THRESHOLD
    ELSE HIGH_FREQ_THRESHOLD

\* a scan that forgets the band threshold
ScanStepNoThreshold(m, acc, i) ==
    IF Mag(m, i) > acc.max_mag
    THEN [max_mag |-> Mag(m, i), max_index |-> i]
    ELSE acc

\* one iteration of the loop over the bins, main.rs 207-210
ScanStep(m, acc, i) ==
    IF Mag(m, i) > Threshold(i) /\ Mag(m, i) > acc.max_mag
    THEN [max_mag |-> Mag(m, i), max_index |-> i]
    ELSE acc

\* the iterations lo, lo+1, ..., hi-1 in that order, from accumulator acc
\* (split in halves, the first half evaluated before the second is entered,
\* only to keep the evaluation shallow; max_mag is never negative)
RECURSIVE ScanBins(_, _, _, _)
ScanBins(m, lo, hi, acc) ==
    IF lo >= hi THEN acc
    ELSE IF hi = lo + 1 THEN ScanStep(m, acc, lo)
    ELSE LET mid == (lo + hi) \div 2
             first == ScanBins(m, lo, mid, acc)
         IN IF first.max_mag >= 0 THEN ScanBins(m, mid, hi, first) ELSE first

\* `for i in 0..FREQUENCY_MAGNITUDE_LENGHT` from max_mag = 0.0, max_index = 0
PeakScan(m) ==
    ScanBins(m, 0, FREQUENCY_MAGNITUDE_LENGHT, [max_mag |-> 0, max_index |-> 0])

(***************************************************************************)
(* Quadratic interpolation, main.rs 214-231                                *)
(***************************************************************************)
\* a refinement that doubles the offset where it should halve it
RefinedFrequencyDoubled(max_index, y_km1, y_kp1, denom) ==
    LET num == (max_index * denom + 2 * (y_km1 - y_kp1)) * BinWidthNum
        den == denom * BinWidthDen
    IN IF den > 0 THEN Freq(num, den) ELSE Freq(-num, -den)

\* (max_index + p) * FREQ_BIN_WIDTH with p = 0.5 * (y_km1 - y_kp1) / denom,
\* denom # 0, as a fraction with a positive denominator
RefinedFrequency(max_index, y_km1, y_kp1, denom) ==
    LET num == (2 * max_index * denom + (y_km1 - y_kp1)) * BinWidthNum
        den == 2 * denom * BinWidthDen
    IN IF den > 0 THEN Freq(num, den) ELSE Freq(-num, -den)

DominantFrequency(m, max_mag, max_index) ==
    IF max_mag > 0
    THEN IF max_index > 0 /\ max_index < FREQUENCY_MAGNITUDE_LENGHT - 1
         THEN LET y_km1 == Mag(m, max_index - 1)
                  y_k == Mag(m, max_index)
                  y_kp1 == Mag(m, max_index + 1)
                  denom == y_km1 - 2 * y_k + y_kp1
              IN IF denom # 0
                 THEN RefinedFrequency(max_index, y_km1, y_kp1, denom)
                 ELSE BinFrequency(max_index)
         ELSE BinFrequency(max_index)
    ELSE ZeroFreq

\* main.rs 193-231: max_mag, max_index and the refined frequency of a frame
Analyse(m) ==
    LET scan == PeakScan(m)
    IN [max_mag |-> scan.max_mag,
        max_index |-> scan.max_index,
        frequency |-> DominantFrequency(m, scan.max_mag, scan.max_index)]

(***************************************************************************)
(* find_peaks, main.rs 325-370                                             *)
(***************************************************************************)
\* f32::NEG_INFINITY: below every magnitude (magnitudes are >= 0)
NEG_INFINITY == -1

Contains(result, j) == \E k \in 1..Len(result) : result[k] = j

\* `(lo..hi).for_each(|j| ...)`, main.rs 335-340 and 354-359, from index j
\* (the test on `next` only makes it evaluated before the next iteration)
RECURSIVE MaxScan(_, _, _, _, _)
MaxScan(m, result, j, hi, acc) ==
    IF j >= hi THEN acc
    ELSE LET next == IF Mag(m, j) > acc.max_val /\ ~Contains(result, j)
                     THEN [max_val |-> Mag(m, j), max_idx |-> j]
                     ELSE acc
         IN IF next.max_val >= NEG_INFINITY
            THEN MaxScan(m, result, j + 1, hi, next)
            ELSE next

\* the n remaining iterations of the loop before the dominant peak, 331-345
RECURSIVE PeaksBefore(_, _, _, _)
PeaksBefore(m, result, dominant_index, n) ==
    IF n = 0 THEN result
    ELSE LET start_index == Max(dominant_index - PEAK_WINDOW, 0)
             r == MaxScan(m, result, start_index, dominant_index,
                          [max_val |-> NEG_INFINITY, max_idx |-> start_index])
             next == IF r.max_val > 0 THEN Append(result, r.max_idx) ELSE result
         IN IF Len(next) > 0
            THEN PeaksBefore(m, next, dominant_index, n - 1)
            ELSE next

\* the n remaining iterations of the loop after the dominant peak, 350-365
RECURSIVE PeaksAfter(_, _, _, _, _)
PeaksAfter(m, result, current_idx, end_index, n) ==
    IF n = 0 THEN result
    ELSE LET r == MaxScan(m, result, current_idx + 1, end_index + 1,
                          [max_val |-> NEG_INFINITY, max_idx |-> current_idx])
             next == Append(result, r.max_idx)
         IN IF r.max_idx > current_idx /\ r.max_val > 0 /\ Len(next) > 0
            THEN PeaksAfter(m, next, r.max_idx, end_index, n - 1)
            ELSE PeaksAfter(m, result, current_idx, end_index, n - 1)

\* insertion of x into an ascending sequence
RECURSIVE InsertSorted(_, _)
InsertSorted(s, x) ==
    IF s = <<>> THEN <<x>>
    ELSE IF x <= Head(s) THEN <<x>> \o s
    ELSE <<Head(s)>> \o InsertSorted(Tail(s), x)

RECURSIVE SortedSeq(_)
SortedSeq(s) ==
    IF s = <<>> THEN <<>> ELSE InsertSorted(SortedSeq(Tail(s)), Head(s))

\* find_peaks without its final sort
SortResultSkipped(result) == result

\* `result.sort()`, main.rs 368
SortResult(result) == SortedSeq(result)

find_peaks(m, dominant_index) ==
    LET before == PeaksBefore(m, <<dominant_index>>, dominant_index, PEAK_RANGE)
        end_index == Min(dominant_index + PEAK_WINDOW, FREQUENCY_MAGNITUDE_LENGHT - 1)
        after == PeaksAfter(m, before, dominant_index, end_index, PEAK_RANGE)
    IN SortResult(after)

\* main.rs 261-268
PeakData(m, idx) ==
    [index |-> idx, frequency |-> BinFrequency(idx), magnitude |-> Mag(m, idx)]

Peaks(m, peak_indices) ==
    [k \in 1..Len(peak_indices) |-> PeakData(m, peak_indices[k])]

(***************************************************************************)
(* Classification, main.rs 276-284                                         *)
(***************************************************************************)
\* the ranges written with `..` where the code has `..=`
ClassifyHalfOpen(frequency) ==
    IF FreqGe(frequency, 1900) /\ FreqLe(frequency, 2800) THEN "BROWN COCONUT"
    ELSE IF FreqGe(frequency, 700) /\ FreqLt(frequency, 899) THEN "FLESHY COCONUT"
    ELSE IF FreqGe(frequency, 900) /\ FreqLt(frequency, 1700) THEN "WATER COCONUT"
    ELSE "UNKNOWN"

Classify(frequency) ==
    IF FreqGe(frequency, 1900) /\ FreqLe(frequency, 2800) THEN "BROWN COCONUT"
    ELSE IF FreqGe(frequency, 700) /\ FreqLe(frequency, 899) THEN "FLESHY COCONUT"
    ELSE IF FreqGe(frequency, 900) /\ FreqLe(frequency, 1700) THEN "WATER COCONUT"
    ELSE "UNKNOWN"

(***************************************************************************)
(* Data: Option values are <<>> (None) and <<x>> (Some(x))                 *)
(***************************************************************************)
None == <<>>

Some(x) == <<x>>

\* struct FFTData, main.rs 28-33
FFTData(magnitudes, dominant_frequency, is_recording, latest_impulse) ==
    [magnitudes |-> magnitudes,
     dominant_frequency |-> dominant_frequency,
     is_recording |-> is_recording,
     latest_impulse |-> latest_impulse]

\* struct ImpulseData, constants.rs 41-46
ImpulseData(timestamp, dominant_frequency, peaks, coconut_type) ==
    [timestamp |-> timestamp,
     dominant_frequency |-> dominant_frequency,
     peaks |-> peaks,
     coconut_type |-> coconut_type]

\* the snapshot main constructs, main.rs 65-70
InitialFFTData == FFTData(ZeroSpectrum, ZeroFreq, FALSE, None)

(***************************************************************************)
(* Inputs                                                                  *)
(***************************************************************************)
Levels == {"High", "Low"}

\* i2s.read into the 1024-byte buffer: Ok(bytes_read) or Err
ReadSizes == {0, FREQUENCY_MAGNITUDE_LENGHT \div 2, FREQUENCY_MAGNITUDE_LENGHT}

ReadOutcomes == {[ok |-> TRUE, bytes_read |-> n] : n \in ReadSizes}
                    \cup {[ok |-> FALSE, bytes_read |-> 0]}

\* the spectra the FFT of a captured frame can give: silence, a peak near
\* bin 100 (2.3 kHz) and a louder symmetric peak at bin 38 (890 Hz)
SilentSpectrum == ZeroSpectrum

HighPeakSpectrum == (99 :> 10) @@ (100 :> 30) @@ (101 :> 8)

LowPeakSpectrum == (37 :> 20) @@ (38 :> 60) @@ (39 :> 20)

Spectra == {SilentSpectrum, HighPeakSpectrum, LowPeakSpectrum}

\* milliseconds of esp_timer_get_time between two processed frames
FrameGaps == {10, IMPULSE_TIME_THRESHOLD + 1}

(***************************************************************************)
(* State                                                                   *)
(***************************************************************************)
VARIABLES
    pc,                     \* position of each thread
    previous_button_state,  \* main.rs 62
    recording_enabled,      \* main.rs 63
    acc_index,              \* main.rs 117
    read_copy,              \* main.rs 157-161, bytes_read and the slice copied into
    current_state,          \* main.rs 138, the handle cloned by the toggle
    updated_fft_data,       \* main.rs 303, the snapshot built from a frame
    delta,                  \* main.rs 239
    PREV_MAGNITUDE_SUM,     \* main.rs 234
    LAST_IMPULSE_TIME,      \* main.rs 235
    now,                    \* last reading of esp_timer_get_time, in ms
    system_state,           \* the Arc<FFTData> inside the RwLock, main.rs 65
    poisoned,               \* the RwLock's poison flag
    read_guards,            \* threads holding a read guard of the RwLock
    write_guard,            \* the thread holding the write guard, if any
    ws_current_data,        \* web_server.rs 84
    last_impulse_timestamp, \* web_server.rs 81
    ws_frames,              \* the frames the last poll of the connection sent
    ws_last_sent_impulse,   \* timestamp of the last impulse frame the connection sent
    display_fft_data,       \* display.rs 117
    screen,                 \* what the display shows
    impulse_log,            \* timestamps of the ImpulseData created so far
    cycle_published,        \* whether this pass of the main loop has written the lock
    last_published,         \* the snapshot last handed to the RwLock
    ws_origin,              \* last_published when ws_current_data was cloned
    display_origin,         \* last_published when display_fft_data was cloned
    fn_arg,                 \* argument of a function applied on its own
    fn_ret                  \* and its result

producerVars == <<previous_button_state, recording_enabled, acc_index,
                  read_copy, current_state, updated_fft_data, delta, PREV_MAGNITUDE_SUM,
                  LAST_IMPULSE_TIME, now, impulse_log, cycle_published>>

sharedVars == <<system_state, last_published, write_guard>>

wsVars == <<ws_current_data, last_impulse_timestamp, ws_origin, ws_frames,
            ws_last_sent_impulse>>

displayVars == <<display_fft_data, screen, display_origin>>

fnVars == <<fn_arg, fn_ret>>

vars == <<pc, producerVars, sharedVars, poisoned, read_guards, wsVars,
          displayVars, fnVars>>

Threads == {"main", "ws", "display"}

Goto(t, label) == pc' = [pc EXCEPT ![t] = label]

\* display.rs 52-66 and 155-169: the two lines of the idle prompt
IdlePrompt == <<"Press red button", "to start recording!">>

\* main.rs 62-70 and 115-117, web_server.rs 81: the data before the loops run
DataInit ==
    /\ previous_button_state = "High"
    /\ recording_enabled = FALSE
    /\ acc_index = 0
    /\ read_copy = None
    /\ current_state = None
    /\ updated_fft_data = None
    /\ delta = 0
    /\ PREV_MAGNITUDE_SUM = 0
    /\ LAST_IMPULSE_TIME = 0
    /\ now = 0
    /\ system_state = InitialFFTData
    /\ last_published = InitialFFTData
    /\ read_guards = {}
    /\ write_guard = None
    /\ ws_current_data = None
    /\ last_impulse_timestamp = None
    /\ ws_origin = None
    /\ ws_frames = <<>>
    /\ ws_last_sent_impulse = None
    /\ display_fft_data = None
    /\ display_origin = None
    /\ impulse_log = <<>>
    /\ cycle_published = FALSE

\* every bring-up succeeded: the three loops are about to run and the
\* display shows the prompt drawn by init_oled_display
ProgramInit ==
    /\ pc = [t \in Threads |->
                CASE t = "main" -> "poll"
                  [] t = "ws" -> "ws_idle"
                  [] t = "display" -> "display_read"]
    /\ screen = IdlePrompt
    /\ DataInit

Init ==
    /\ ProgramInit
    /\ poisoned = FALSE
    /\ fn_arg = None
    /\ fn_ret = None

(***************************************************************************)
(* The RwLock<Arc<FFTData>>                                                *)
(***************************************************************************)
\* a store that keeps the old impulse when the new snapshot has none
StoreImpulseKept(old, new) ==
    IF new.latest_impulse = None
    THEN [new EXCEPT !.latest_impulse = old.latest_impulse]
    ELSE new

\* a store that keeps the old dominant frequency beside the new magnitudes
StoreTorn(old, new) ==
    [new EXCEPT !.dominant_frequency = old.dominant_frequency]

\* `*system_state.write().unwrap() = new`: the handle is replaced whole
Store(old, new) == new

\* `read_guard.clone()`: another handle to the same immutable FFTData
CloneHandle(handle) == handle

\* write() waits until no guard at all is held
WriteLockFree == read_guards = {} /\ write_guard = None

\* read() waits until no write guard is held
ReadLockFree == write_guard = None

\* a read guard that outlives the block it was taken in
GuardsAfterCloneHeld(guards, t) == guards

\* main.rs 141, web_server.rs 87, display.rs 120: the block ends and the read
\* guard of thread t is dropped
GuardsAfterClone(guards, t) == guards \ {t}

(***************************************************************************)
(* The producer: the main loop, main.rs 121-322                            *)
(***************************************************************************)
\* a toggle that leaves the accumulated bytes alone
AccAfterToggleKept(recording, index) == index

\* main.rs 129-135: acc_index after the toggle to `recording`
AccAfterToggle(recording, index) == IF recording THEN index ELSE 0

\* a press taken from the level alone
ButtonPressedLevel(previous, current) == current = "Low"

\* main.rs 124: a press is the transition from High to Low
ButtonPressed(previous, current) == previous = "High" /\ current = "Low"

\* a toggle that starts the impulse detector afresh
DetectorAfterToggleReset(prev_sum, last_time) == <<0, 0>>

\* main.rs 125-149: the toggle block names neither PREV_MAGNITUDE_SUM nor
\* LAST_IMPULSE_TIME, the statics of main.rs 234-235 keep their values
DetectorAfterToggle(prev_sum, last_time) == <<prev_sum, last_time>>

\* main.rs 122-141 and 152-154: poll the button; on a press toggle the
\* recording state and take the read lock, otherwise go on with the loop body
Poll(level) ==
    /\ pc["main"] = "poll"
    /\ previous_button_state' = level
    /\ cycle_published' = FALSE
    /\ IF ButtonPressed(previous_button_state, level)
       THEN /\ recording_enabled' = ~recording_enabled
            /\ acc_index' = AccAfterToggle(~recording_enabled, acc_index)
            /\ LET detector == DetectorAfterToggle(PREV_MAGNITUDE_SUM,
                                                   LAST_IMPULSE_TIME)
               IN /\ PREV_MAGNITUDE_SUM' = detector[1]
                  /\ LAST_IMPULSE_TIME' = detector[2]
            /\ IF poisoned
               THEN /\ Goto("main", "panicked")
                    /\ UNCHANGED read_guards
               ELSE /\ Goto("main", "toggle_clone")
                    /\ read_guards' = read_guards \cup {"main"}
       ELSE /\ Goto("main", IF recording_enabled THEN "accumulate" ELSE "sleep")
            /\ UNCHANGED <<recording_enabled, acc_index, read_guards,
                           PREV_MAGNITUDE_SUM, LAST_IMPULSE_TIME>>
    /\ UNCHANGED <<read_copy, current_state, updated_fft_data, delta, now,
                   impulse_log, sharedVars, poisoned, wsVars, displayVars,
                   fnVars>>

\* main.rs 140-141: clone the handle, drop the read guard
ToggleClone ==
    /\ pc["main"] = "toggle_clone"
    /\ current_state' = Some(CloneHandle(system_state))
    /\ read_guards' = GuardsAfterClone(read_guards, "main")
    /\ Goto("main", "toggle_publish")
    /\ UNCHANGED <<previous_button_state, recording_enabled, acc_index,
                   read_copy, updated_fft_data, delta, PREV_MAGNITUDE_SUM,
                   LAST_IMPULSE_TIME, now, impulse_log, cycle_published,
                   sharedVars, poisoned, wsVars, displayVars, fnVars>>

\* a toggle that publishes an empty spectrum
ToggleDataCleared(state, recording) ==
    FFTData(ZeroSpectrum, ZeroFreq, recording, None)

\* a toggle that republishes the old impulse
ToggleDataImpulseKept(state, recording) ==
    FFTData(state.magnitudes, state.dominant_frequency, recording,
            state.latest_impulse)

\* a toggle that republishes the old recording flag
ToggleDataFlagKept(state, recording) ==
    FFTData(state.magnitudes, state.dominant_frequency, state.is_recording, None)

\* the snapshot of main.rs 143-148
ToggleData(state, recording) ==
    FFTData(state.magnitudes, state.dominant_frequency, recording, None)

\* main.rs 143: system_state.write().unwrap(), taken once the new FFTData
\* has been built
ToggleWrite ==
    /\ pc["main"] = "toggle_publish"
    /\ WriteLockFree
    /\ IF poisoned
       THEN /\ Goto("main", "panicked")
            /\ UNCHANGED write_guard
       ELSE /\ Goto("main", "toggle_swap")
            /\ write_guard' = Some("main")
    /\ UNCHANGED <<producerVars, system_state, last_published, poisoned,
                   read_guards, wsVars, displayVars, fnVars>>

\* main.rs 143-149 and 154: publish the new recording status; the write
\* guard is a temporary of the assignment and is dropped with it
TogglePublish ==
    /\ pc["main"] = "toggle_swap"
    /\ LET new == ToggleData(current_state[1], recording_enabled)
       IN /\ system_state' = Store(system_state, new)
          /\ last_published' = new
          /\ write_guard' = None
          /\ cycle_published' = TRUE
          /\ current_state' = None
          /\ Goto("main", IF recording_enabled THEN "accumulate" ELSE "sleep")
    /\ UNCHANGED <<previous_button_state, recording_enabled, acc_index,
                   read_copy, updated_fft_data, delta, PREV_MAGNITUDE_SUM,
                   LAST_IMPULSE_TIME, now, impulse_log, poisoned, read_guards,
                   wsVars, displayVars, fnVars>>

\* main.rs 171: where the loop body goes once the `while` is left
AfterWhile(index) == IF index >= FFT_LENGTH_BYTES THEN "process" ELSE "poll"

\* main.rs 155: the condition of the `while`
WhileCheck ==
    /\ pc["main"] = "accumulate"
    /\ Goto("main", IF acc_index < FFT_LENGTH_BYTES
                    THEN "read"
                    ELSE AfterWhile(acc_index))
    /\ read_copy' = None
    /\ UNCHANGED <<previous_button_state, recording_enabled, acc_index,
                   current_state, updated_fft_data, delta, PREV_MAGNITUDE_SUM,
                   LAST_IMPULSE_TIME, now, impulse_log, cycle_published,
                   sharedVars, poisoned, read_guards, wsVars, displayVars,
                   fnVars>>

\* a copy that trusts bytes_read to fit
BytesToCopyUncapped(bytes_read, space_left) == bytes_read

\* main.rs 159
BytesToCopy(bytes_read, space_left) == Min(bytes_read, space_left)

\* an error arm that starts the frame over
AccAfterErrorReset(index) == 0

\* main.rs 164-167: the error arm logs and breaks, acc_index is not touched
AccAfterError(index) == index

\* main.rs 159-160: accumulated_buffer[acc_index..acc_index + bytes_to_copy]
CopySlice(bytes_read, index, bytes_to_copy) ==
    [bytes_read |-> bytes_read, from |-> index, to |-> index + bytes_to_copy]

\* main.rs 156-168: one i2s.read
Read(outcome) ==
    /\ pc["main"] = "read"
    /\ IF outcome.ok
       THEN LET space_left == FFT_LENGTH_BYTES - acc_index
                bytes_to_copy == BytesToCopy(outcome.bytes_read, space_left)
            IN /\ read_copy' = Some(CopySlice(outcome.bytes_read, acc_index,
                                              bytes_to_copy))
               /\ acc_index' = acc_index + bytes_to_copy
               /\ Goto("main", "accumulate")
       ELSE /\ read_copy' = None
            /\ acc_index' = AccAfterError(acc_index)
            /\ Goto("main", AfterWhile(acc_index'))
    /\ UNCHANGED <<previous_button_state, recording_enabled, current_state,
                   updated_fft_data, delta, PREV_MAGNITUDE_SUM,
                   LAST_IMPULSE_TIME, now, impulse_log, cycle_published,
                   sharedVars, poisoned, read_guards, wsVars, displayVars,
                   fnVars>>

\* a trigger that forgets the frequency floor
IsImpulseAnyFrequency(d, elapsed, frequency) ==
    /\ d > IMPULSE_THRESHOLD
    /\ elapsed > IMPULSE_TIME_THRESHOLD

\* a trigger whose refractory test lets the boundary through
IsImpulseNoDebounce(d, elapsed, frequency) ==
    /\ d > IMPULSE_THRESHOLD
    /\ elapsed > 0
    /\ FreqGt(frequency, MIN_IMPULSE_FREQUENCY)

\* main.rs 248-250
IsImpulse(d, elapsed, frequency) ==
    /\ d > IMPULSE_THRESHOLD
    /\ elapsed > IMPULSE_TIME_THRESHOLD
    /\ FreqGt(frequency, MIN_IMPULSE_FREQUENCY)

\* main.rs 258-300: the ImpulseData of a triggering frame
DetectedImpulse(m, max_index, frequency, timestamp) ==
    ImpulseData(timestamp, frequency,
                Peaks(m, find_peaks(m, max_index)),
                Classify(frequency))

\* a sum remembered only when the frame triggers
PrevSumOnTrigger(prev, magnitude_sum, trigger) ==
    IF trigger THEN magnitude_sum ELSE prev

\* main.rs 241-243: PREV_MAGNITUDE_SUM after the frame
PrevSum(prev, magnitude_sum, trigger) == magnitude_sum

\* a frame snapshot that says the producer is idle
FrameDataIdle(m, frequency, detected_impulse) ==
    FFTData(m, frequency, FALSE, detected_impulse)

\* the snapshot of main.rs 303-308
FrameData(m, frequency, detected_impulse) ==
    FFTData(m, frequency, TRUE, detected_impulse)

\* Analyse on the spectra of the model, evaluated once
AnalysisOf == [m \in Spectra |-> Analyse(m)]

\* main.rs 172-308: a full frame with spectrum m, the timer reading t
ProcessFrame(m, t) ==
    /\ pc["main"] = "process"
    /\ LET a == AnalysisOf[m]
           magnitude_sum == SumMag(m)
           d == Abs(magnitude_sum - PREV_MAGNITUDE_SUM)
           trigger == IsImpulse(d, t - LAST_IMPULSE_TIME, a.frequency)
           detected_impulse ==
               IF trigger
               THEN Some(DetectedImpulse(m, a.max_index, a.frequency, t))
               ELSE None
       IN /\ now' = t
          /\ delta' = d
          /\ PREV_MAGNITUDE_SUM' = PrevSum(PREV_MAGNITUDE_SUM, magnitude_sum, trigger)
          /\ LAST_IMPULSE_TIME' = IF trigger THEN t ELSE LAST_IMPULSE_TIME
          /\ impulse_log' = IF trigger THEN Append(impulse_log, t) ELSE impulse_log
          /\ updated_fft_data' = Some(FrameData(m, a.frequency, detected_impulse))
    /\ Goto("main", "publish")
    /\ UNCHANGED <<previous_button_state, recording_enabled, acc_index,
                   read_copy, current_state, cycle_published, sharedVars,
                   poisoned, read_guards, wsVars, displayVars, fnVars>>

\* main.rs 314: system_state.write().unwrap(), taken once updated_fft_data
\* has been built
FrameWrite ==
    /\ pc["main"] = "publish"
    /\ WriteLockFree
    /\ IF poisoned
       THEN /\ Goto("main", "panicked")
            /\ UNCHANGED write_guard
       ELSE /\ Goto("main", "publish_swap")
            /\ write_guard' = Some("main")
    /\ UNCHANGED <<producerVars, system_state, last_published, poisoned,
                   read_guards, wsVars, displayVars, fnVars>>

\* main.rs 314-316: swap the snapshot in and drop the write guard, start the
\* next frame
PublishFrame ==
    /\ pc["main"] = "publish_swap"
    /\ system_state' = Store(system_state, updated_fft_data[1])
    /\ last_published' = updated_fft_data[1]
    /\ write_guard' = None
    /\ cycle_published' = TRUE
    /\ updated_fft_data' = None
    /\ acc_index' = 0
    /\ Goto("main", "poll")
    /\ delta' = 0
    /\ UNCHANGED <<previous_button_state, recording_enabled, read_copy,
                   current_state, PREV_MAGNITUDE_SUM, LAST_IMPULSE_TIME, now,
                   impulse_log, poisoned, read_guards, wsVars, displayVars,
                   fnVars>>

\* main.rs 320
Sleep ==
    /\ pc["main"] = "sleep"
    /\ Goto("main", "poll")
    /\ UNCHANGED <<producerVars, sharedVars, poisoned, read_guards, wsVars,
                   displayVars, fnVars>>

(***************************************************************************)
(* The telemetry reader: the WebSocket handler, web_server.rs 80-154       *)
(***************************************************************************)
\* a client connects and the handler starts, web_server.rs 80-81
WsConnect ==
    /\ pc["ws"] = "ws_idle"
    /\ last_impulse_timestamp' = None
    /\ ws_frames' = <<>>
    /\ ws_last_sent_impulse' = None
    /\ Goto("ws", "ws_read")
    /\ UNCHANGED <<producerVars, sharedVars, poisoned, read_guards,
                   ws_current_data, ws_origin, displayVars, fnVars>>

\* web_server.rs 85: server_state_ws.read().unwrap()
WsRead ==
    /\ pc["ws"] = "ws_read"
    /\ ReadLockFree
    /\ IF poisoned
       THEN /\ Goto("ws", "panicked")
            /\ UNCHANGED read_guards
       ELSE /\ Goto("ws", "ws_clone")
            /\ read_guards' = read_guards \cup {"ws"}
    /\ ws_frames' = <<>>
    /\ UNCHANGED <<producerVars, sharedVars, poisoned, ws_current_data,
                   last_impulse_timestamp, ws_origin, ws_last_sent_impulse,
                   displayVars, fnVars>>

\* web_server.rs 86-87: clone the handle, drop the read guard
WsClone ==
    /\ pc["ws"] = "ws_clone"
    /\ ws_current_data' = Some(CloneHandle(system_state))
    /\ ws_origin' = Some(last_published)
    /\ read_guards' = GuardsAfterClone(read_guards, "ws")
    /\ Goto("ws", "ws_send")
    /\ UNCHANGED <<producerVars, sharedVars, poisoned, last_impulse_timestamp,
                   ws_frames, ws_last_sent_impulse, displayVars, fnVars>>

\* an impulse frame for every snapshot that carries an impulse
ImpulseFrameDueAlways(data, last) == data.latest_impulse # None

\* whether the impulse frame is due, web_server.rs 106-107
ImpulseFrameDue(data, last) ==
    /\ data.latest_impulse # None
    /\ last # Some(data.latest_impulse[1].timestamp)

SendOutcomes == {"sent", "spectrum_send_failed", "impulse_send_failed"}

\* web_server.rs 97: the frame with header byte 0x01
SpectrumFrame(data) == [tag |-> 1]

\* web_server.rs 112-115: the frame with header byte 0x02
ImpulseFrame(impulse) == [tag |-> 2, timestamp |-> impulse.timestamp]

\* the frames that went out in one poll, in the order of the sends
FramesSent(data, due, outcome) ==
    IF outcome = "spectrum_send_failed" THEN <<>>
    ELSE IF outcome = "sent" /\ due
         THEN <<SpectrumFrame(data), ImpulseFrame(data.latest_impulse[1])>>
         ELSE <<SpectrumFrame(data)>>

\* the timestamp of the last 0x02 frame among `frames`, else `before`
LastImpulseSent(frames, before) ==
    LET sent == {k \in 1..Len(frames) : frames[k].tag = 2}
    IN IF sent = {} THEN before
       ELSE Some(frames[CHOOSE k \in sent : \A l \in sent : l <= k].timestamp)

\* web_server.rs 89-151: send the spectrum frame, the impulse frame if it is
\* new, sleep; a failed send ends the handler
WsSend(outcome) ==
    /\ pc["ws"] = "ws_send"
    /\ LET data == ws_current_data[1]
           due == ImpulseFrameDue(data, last_impulse_timestamp)
       IN /\ outcome = "impulse_send_failed" => due
          /\ last_impulse_timestamp' =
                IF outcome = "sent" /\ due
                THEN Some(data.latest_impulse[1].timestamp)
                ELSE last_impulse_timestamp
          /\ ws_frames' = FramesSent(data, due, outcome)
          /\ ws_last_sent_impulse' =
                LastImpulseSent(FramesSent(data, due, outcome),
                                ws_last_sent_impulse)
          /\ Goto("ws", IF outcome = "sent" THEN "ws_read" ELSE "ws_idle")
    /\ ws_current_data' = None
    /\ ws_origin' = None
    /\ UNCHANGED <<producerVars, sharedVars, poisoned, read_guards,
                   displayVars, fnVars>>

WsNext ==
    \/ WsConnect
    \/ WsRead
    \/ WsClone
    \/ \E outcome \in SendOutcomes : WsSend(outcome)

(***************************************************************************)
(* The display reader: the loop of display.rs 115-190                      *)
(***************************************************************************)
\* display.rs 118: system_state.read().unwrap()
DisplayRead ==
    /\ pc["display"] = "display_read"
    /\ ReadLockFree
    /\ IF poisoned
       THEN /\ Goto("display", "panicked")
            /\ UNCHANGED read_guards
       ELSE /\ Goto("display", "display_clone")
            /\ read_guards' = read_guards \cup {"display"}
    /\ UNCHANGED <<producerVars, sharedVars, poisoned, wsVars, displayVars,
                   fnVars>>

\* display.rs 119-120: clone the handle, drop the read guard
DisplayClone ==
    /\ pc["display"] = "display_clone"
    /\ display_fft_data' = Some(CloneHandle(system_state))
    /\ display_origin' = Some(last_published)
    /\ read_guards' = GuardsAfterClone(read_guards, "display")
    /\ Goto("display", "display_draw")
    /\ UNCHANGED <<producerVars, sharedVars, poisoned, wsVars, screen, fnVars>>

\* display.rs 124-177: what is on the screen after the draw
Rendered(data, shown) ==
    IF data.latest_impulse # None
    THEN <<"Coconut Type:", data.latest_impulse[1].coconut_type>>
    ELSE IF ~data.is_recording THEN IdlePrompt
    ELSE shown

\* display.rs 122-189: draw, flush, sleep
DisplayDraw ==
    /\ pc["display"] = "display_draw"
    /\ screen' = Rendered(display_fft_data[1], screen)
    /\ display_fft_data' = None
    /\ display_origin' = None
    /\ Goto("display", "display_read")
    /\ UNCHANGED <<producerVars, sharedVars, poisoned, read_guards, wsVars,
                   fnVars>>

DisplayNext ==
    \/ DisplayRead
    \/ DisplayClone
    \/ DisplayDraw

(***************************************************************************)
(* Specifications                                                          *)
(***************************************************************************)
\* the steps of the producer while the timer stays within `limit`
ProducerSteps(limit) ==
    \/ \E level \in Levels : Poll(level)
    \/ ToggleClone
    \/ ToggleWrite
    \/ TogglePublish
    \/ WhileCheck
    \/ \E outcome \in ReadOutcomes : Read(outcome)
    \/ \E m \in Spectra, gap \in FrameGaps :
          now + gap <= limit /\ ProcessFrame(m, now + gap)
    \/ FrameWrite
    \/ PublishFrame
    \/ Sleep

\* the producer alone
ProducerNext == ProducerSteps(MaxNow)

SpecProducer == Init /\ [][ProducerNext]_vars

\* the producer is a thread that keeps running
FairProducer == SpecProducer /\ WF_vars(ProducerNext)

\* the three threads together
Next == ProducerSteps(MaxSystemNow) \/ WsNext \/ DisplayNext

Spec == Init /\ [][Next]_vars

\* the producer and one WebSocket connection after another, long enough
\* for two impulses
TelemetryNext == ProducerSteps(MaxNow) \/ WsNext

SpecTelemetry == Init /\ [][TelemetryNext]_vars

(***************************************************************************)
(* Bring-up: main.rs 76-113, web_server.rs 160-187, display.rs 93-112      *)
(***************************************************************************)
Outcomes == {"ok", "failed"}

\* an OLED that has not been drawn on
BlankScreen == <<>>

\* main.rs 86-96: I2sDriver::new_std_rx(..)? and rx_enable()?; an Err makes
\* main return before any thread is spawned
InitCapture(outcome) ==
    /\ pc["main"] = "init_capture"
    /\ Goto("main", IF outcome = "ok" THEN "spawn_wifi" ELSE "returned_err")
    /\ UNCHANGED <<producerVars, sharedVars, poisoned, read_guards, wsVars,
                   displayVars, fnVars>>

\* main.rs 112, web_server.rs 160-186: spawn the Wi-Fi/server thread; a
\* failed spawn panics main
SpawnWifi(outcome) ==
    /\ pc["main"] = "spawn_wifi"
    /\ pc' = IF outcome = "ok"
             THEN [pc EXCEPT !["main"] = "spawn_display", !["ws"] = "wifi_init"]
             ELSE [pc EXCEPT !["main"] = "panicked"]
    /\ UNCHANGED <<producerVars, sharedVars, poisoned, read_guards, wsVars,
                   displayVars, fnVars>>

\* main.rs 113, display.rs 82-94 and 197: spawn the display thread; a failed
\* spawn panics main
SpawnDisplay(outcome) ==
    /\ pc["main"] = "spawn_display"
    /\ pc' = IF outcome = "ok"
             THEN [pc EXCEPT !["main"] = "poll", !["display"] = "display_init"]
             ELSE [pc EXCEPT !["main"] = "panicked"]
    /\ UNCHANGED <<producerVars, sharedVars, poisoned, read_guards, wsVars,
                   displayVars, fnVars>>

\* web_server.rs 178-183: init_wifi_ap and init_http_server, each .expect()ed:
\* a failure panics the Wi-Fi/server thread
WifiInit(outcome) ==
    /\ pc["ws"] = "wifi_init"
    /\ Goto("ws", IF outcome = "ok" THEN "ws_idle" ELSE "panicked")
    /\ UNCHANGED <<producerVars, sharedVars, poisoned, read_guards, wsVars,
                   displayVars, fnVars>>

\* display.rs 98-112 and 192-194: I2cDriver::new and init_oled_display; on a
\* failure the thread logs and returns
DisplayInit(outcome) ==
    /\ pc["display"] = "display_init"
    /\ Goto("display", IF outcome = "ok" THEN "display_read" ELSE "returned")
    /\ screen' = IF outcome = "ok" THEN IdlePrompt ELSE screen
    /\ UNCHANGED <<producerVars, sharedVars, poisoned, read_guards, wsVars,
                   display_fft_data, display_origin, fnVars>>

BootInit ==
    /\ pc = [t \in Threads |->
                IF t = "main" THEN "init_capture" ELSE "unspawned"]
    /\ screen = BlankScreen
    /\ DataInit
    /\ poisoned = FALSE
    /\ fn_arg = None
    /\ fn_ret = None

BootNext ==
    \/ \E outcome \in Outcomes : InitCapture(outcome)
    \/ \E outcome \in Outcomes : SpawnWifi(outcome)
    \/ \E outcome \in Outcomes : SpawnDisplay(outcome)
    \/ \E outcome \in Outcomes : WifiInit(outcome)
    \/ \E outcome \in Outcomes : DisplayInit(outcome)
    \/ ProducerSteps(MaxBootNow)
    \/ WsNext
    \/ DisplayNext

\* the program from the start of main's bring-up
SpecBoot == BootInit /\ [][BootNext]_vars

\* the same threads started on a lock that may already be poisoned
InitPoison ==
    /\ ProgramInit
    /\ poisoned \in BOOLEAN
    /\ fn_arg = None
    /\ fn_ret = None

SpecPoison == InitPoison /\ [][Next]_vars

(***************************************************************************)
(* The pure functions applied on their own to bounded inputs               *)
(***************************************************************************)
programVars == <<pc, producerVars, sharedVars, poisoned, read_guards, wsVars,
                 displayVars>>

FnInit(inputs) ==
    /\ ProgramInit
    /\ poisoned = FALSE
    /\ fn_arg \in inputs
    /\ fn_ret = None

\* frequencies in steps of 1/FrequencySteps Hz around the bands, and the
\* frequency of every bin
ClassifyInputs ==
    {[op |-> "classify", frequency |-> Freq(n, FrequencySteps)] :
        n \in 600 * FrequencySteps .. MaxClassifyHz * FrequencySteps}
    \cup {[op |-> "classify", frequency |-> BinFrequency(i)] :
            i \in 0 .. FREQUENCY_MAGNITUDE_LENGHT - 1}

ClassifyCall ==
    /\ fn_arg # None /\ fn_arg.op = "classify" /\ fn_ret = None
    /\ fn_ret' = Some(Classify(fn_arg.frequency))
    /\ UNCHANGED <<programVars, fn_arg>>

SpecClassify == FnInit(ClassifyInputs) /\ [][ClassifyCall]_vars

\* spectra that are zero except at the given offsets from the dominant bin,
\* and a dense one, for dominant bins at both ends and in the middle
PeakOffsets == {-26, -25, -2, -1, 1, 2, 26}

PeakDominants == {0, 1, 25, 26, 500, 998, 1022, 1023}

Bins == 0 .. FREQUENCY_MAGNITUDE_LENGHT - 1

SpectrumAt(d, g) == [i \in {d + o : o \in PeakOffsets} \cap Bins |-> g[i - d]]

DenseSpectrumAt(d) ==
    [i \in (d - 30 .. d + 30) \cap Bins |-> (i * 3) % (MaxPeakMag + 2)]

FindPeaksInputs ==
    {[op |-> "find_peaks", magnitudes |-> SpectrumAt(d, g), dominant_index |-> d] :
        d \in PeakDominants, g \in [PeakOffsets -> 0 .. MaxPeakMag]}
    \cup {[op |-> "find_peaks", magnitudes |-> DenseSpectrumAt(d), dominant_index |-> d] :
            d \in PeakDominants}

FindPeaksCall ==
    /\ fn_arg # None /\ fn_arg.op = "find_peaks" /\ fn_ret = None
    /\ fn_ret' = Some(find_peaks(fn_arg.magnitudes, fn_arg.dominant_index))
    /\ UNCHANGED <<programVars, fn_arg>>

SpecFindPeaks == FnInit(FindPeaksInputs) /\ [][FindPeaksCall]_vars

\* spectra that are zero except at the first bin, the bins around the
\* frequency cutoff and the last bin, with magnitudes around the thresholds
ScanSupport == {0, 42, 43, 44, FREQUENCY_MAGNITUDE_LENGHT - 1}

ScanLevels == {0} \cup (LOW_FREQ_THRESHOLD - 1 .. MaxScanMag)

PeakScanInputs ==
    {[op |-> "analyse", magnitudes |-> g] : g \in [ScanSupport -> ScanLevels]}

AnalyseCall ==
    /\ fn_arg # None /\ fn_arg.op = "analyse" /\ fn_ret = None
    /\ fn_ret' = Some(Analyse(fn_arg.magnitudes))
    /\ UNCHANGED <<programVars, fn_arg>>

SpecAnalyse == FnInit(PeakScanInputs) /\ [][AnalyseCall]_vars

(***************************************************************************)
(* Properties                                                              *)
(***************************************************************************)
Accumulating == pc["main"] \in {"accumulate", "read"}

SameSnapshot(a, b) ==
    /\ a.magnitudes = b.magnitudes
    /\ a.dominant_frequency = b.dominant_frequency
    /\ a.is_recording = b.is_recording
    /\ a.latest_impulse = b.latest_impulse

C1_Whole ==
    /\ SameSnapshot(system_state, last_published)
    /\ ws_current_data # None => SameSnapshot(ws_current_data[1], ws_origin[1])
    /\ display_fft_data # None => SameSnapshot(display_fft_data[1], display_origin[1])

C1_HandleKept ==
    /\ (ws_current_data # None /\ ws_current_data' # None)
          => ws_current_data' = ws_current_data
    /\ (display_fft_data # None /\ display_fft_data' # None)
          => display_fft_data' = display_fft_data

\* C1: under every interleaving of the producer's frame and toggle
\* publications with the two readers, the handle in the lock and every
\* handle a reader holds equal, in all four fields, one snapshot the producer
\* published, and a handle a reader holds does not change while it holds it.
C1_AtomicPublication == [](C1_Whole) /\ [][C1_HandleKept]_vars

\* both readers hold snapshots older than the one in the lock, each a
\* different one
C1_Witness ==
    /\ ws_current_data # None
    /\ display_fft_data # None
    /\ ws_current_data[1] # system_state
    /\ display_fft_data[1] # system_state
    /\ ws_current_data[1] # display_fft_data[1]
    /\ ws_current_data[1].latest_impulse # None

\* C2: any two ImpulseData created have timestamps more than
\* IMPULSE_TIME_THRESHOLD apart.
C2_Debounce ==
    \A i, j \in 1..Len(impulse_log) :
        i < j => impulse_log[j] - impulse_log[i] > IMPULSE_TIME_THRESHOLD

\* a frame 10 ms after an impulse that passes the magnitude and frequency
\* tests and creates no second ImpulseData
C2_Witness ==
    /\ pc["main"] = "publish"
    /\ Len(impulse_log) = 1
    /\ now = impulse_log[1] + 10
    /\ delta > IMPULSE_THRESHOLD
    /\ FreqGt(updated_fft_data[1].dominant_frequency, MIN_IMPULSE_FREQUENCY)
    /\ updated_fft_data[1].latest_impulse = None

C3_Called == fn_arg # None /\ fn_arg.op = "classify" /\ fn_ret # None

\* C3 as stated: the label follows the half-open table, 1900 <= f <= 2800
\* BROWN, 700 <= f < 899 FLESHY, 900 <= f < 1700 WATER, anything else UNKNOWN.
C3_HalfOpenTable ==
    C3_Called =>
        LET f == fn_arg.frequency
            label == fn_ret[1]
        IN label =
             IF FreqGe(f, 1900) /\ FreqLe(f, 2800) THEN "BROWN COCONUT"
             ELSE IF FreqGe(f, 700) /\ FreqLt(f, 899) THEN "FLESHY COCONUT"
             ELSE IF FreqGe(f, 900) /\ FreqLt(f, 1700) THEN "WATER COCONUT"
             ELSE "UNKNOWN"

\* C3 amended: the bands are closed at both ends, 700 <= f <= 899 FLESHY and
\* 900 <= f <= 1700 WATER, 1900 <= f <= 2800 BROWN; f < 700, 899 < f < 900,
\* 1700 < f < 1900 and f > 2800 are UNKNOWN.
C3_ClosedTable ==
    C3_Called =>
        LET f == fn_arg.frequency
            label == fn_ret[1]
        IN /\ (FreqGe(f, 1900) /\ FreqLe(f, 2800)) => label = "BROWN COCONUT"
           /\ (FreqGe(f, 700) /\ FreqLe(f, 899)) => label = "FLESHY COCONUT"
           /\ (FreqGe(f, 900) /\ FreqLe(f, 1700)) => label = "WATER COCONUT"
           /\ (\/ FreqLt(f, 700)
               \/ FreqGt(f, 899) /\ FreqLt(f, 900)
               \/ FreqGt(f, 1700) /\ FreqLt(f, 1900)
               \/ FreqGt(f, 2800)) => label = "UNKNOWN"

\* 899 Hz exactly has been classified, as FLESHY COCONUT
C3_Witness ==
    /\ C3_Called
    /\ fn_arg.frequency.n = 899 * fn_arg.frequency.d
    /\ fn_ret[1] = "FLESHY COCONUT"

\* C4: the accumulated count stays within 0..FFT_LENGTH_BYTES, and the frame
\* is processed and published only with exactly FFT_LENGTH_BYTES accumulated.
C4_WholeFramesOnly ==
    /\ acc_index \in 0 .. FFT_LENGTH_BYTES
    /\ pc["main"] \in {"process", "publish", "publish_swap"}
          => acc_index = FFT_LENGTH_BYTES

\* a frame has been processed and is about to be published
C4_Witness ==
    /\ pc["main"] = "publish"
    /\ updated_fft_data # None
    /\ acc_index = FFT_LENGTH_BYTES

C5_ToggleStep ==
    /\ (recording_enabled' # recording_enabled) => acc_index' = 0
    /\ (pc["main"] = "toggle_swap" /\ pc'["main"] \in {"accumulate", "sleep"})
          => /\ system_state'.latest_impulse = None
             /\ system_state'.is_recording = recording_enabled

\* C5: whenever the state is Idle the accumulated count is 0, every toggle
\* of the recording state leaves the count at 0, whatever it was, and the
\* snapshot each toggle publishes has latest_impulse = None.
C5_ToggleResets ==
    [](~recording_enabled => acc_index = 0) /\ [][C5_ToggleStep]_vars

\* recording resumes after a session that published a spectrum and was
\* stopped: the toggle to Recording is about to publish over the Idle snapshot
C5_Witness ==
    /\ pc["main"] = "toggle_publish"
    /\ recording_enabled
    /\ acc_index = 0
    /\ system_state.magnitudes # ZeroSpectrum
    /\ ~system_state.is_recording
    /\ system_state.latest_impulse = None

\* C6: find_peaks returns a list that contains the dominant bin, ascends
\* strictly and has no index twice.
C6_PeaksSorted ==
    (fn_arg # None /\ fn_arg.op = "find_peaks" /\ fn_ret # None) =>
        LET r == fn_ret[1]
        IN /\ \E k \in 1..Len(r) : r[k] = fn_arg.dominant_index
           /\ \A k \in 1..Len(r) - 1 : r[k] < r[k + 1]
           /\ \A k, l \in 1..Len(r) : k # l => r[k] # r[l]

\* a result with peaks on both sides of the dominant bin, the ones before
\* it found in descending order of magnitude
C6_Witness ==
    /\ fn_arg # None /\ fn_arg.op = "find_peaks" /\ fn_ret # None
    /\ LET r == fn_ret[1]
           d == fn_arg.dominant_index
           m == fn_arg.magnitudes
       IN /\ Len(r) >= 5
          /\ r[1] < d /\ r[2] < d /\ r[Len(r)] > d
          /\ Mag(m, r[1]) < Mag(m, r[2])

C7_FrameStep ==
    (pc["main"] = "process" /\ pc'["main"] = "publish") =>
        LET snap == updated_fft_data'[1]
            m == snap.magnitudes
            frequency == snap.dominant_frequency
            all_three ==
                /\ Abs(SumMag(m) - PREV_MAGNITUDE_SUM) > IMPULSE_THRESHOLD
                /\ now' - LAST_IMPULSE_TIME > IMPULSE_TIME_THRESHOLD
                /\ FreqGt(frequency, MIN_IMPULSE_FREQUENCY)
        IN /\ snap.latest_impulse # None <=> all_three
           /\ all_three =>
                /\ LAST_IMPULSE_TIME' = now'
                /\ snap.latest_impulse[1].timestamp = now'
                /\ snap.latest_impulse[1].dominant_frequency = frequency
                /\ snap.latest_impulse[1].peaks
                      = Peaks(m, find_peaks(m, AnalysisOf[m].max_index))
                /\ snap.latest_impulse[1].coconut_type = Classify(frequency)
           /\ ~all_three => LAST_IMPULSE_TIME' = LAST_IMPULSE_TIME

Qualifies(m, i) == Mag(m, i) > Threshold(i)

\* C8: if some bin exceeds the threshold of its band, max_index is such a bin
\* and no such bin has a larger magnitude; if none does, the dominant
\* frequency is 0.
C8_PeakSelection ==
    (fn_arg # None /\ fn_arg.op = "analyse" /\ fn_ret # None) =>
        LET m == fn_arg.magnitudes
            a == fn_ret[1]
        IN IF \E i \in Bins : Qualifies(m, i)
           THEN /\ Qualifies(m, a.max_index)
                /\ \A j \in Bins : Qualifies(m, j) => Mag(m, a.max_index) >= Mag(m, j)
           ELSE a.frequency.n = 0

\* the bin above the cutoff was chosen over a smaller qualifying bin below
\* the cutoff and a bin that does not qualify
C8_Witness ==
    /\ fn_arg # None /\ fn_arg.op = "analyse" /\ fn_ret # None
    /\ fn_ret[1].max_index = 43
    /\ Qualifies(fn_arg.magnitudes, 42)
    /\ ~Qualifies(fn_arg.magnitudes, 0)
    /\ Mag(fn_arg.magnitudes, 0) > 0

C10_AccumulationReturns == Accumulating ~> ~Accumulating

\* C11 as stated: every idle pass of the main loop, and not only the one of
\* the button edge that entered Idle, writes a snapshot to the lock.
C11_IdleRepublishes == pc["main"] = "sleep" => cycle_published

C11_IdleStep ==
    /\ (pc["main"] = "poll" /\ pc'["main"] = "sleep")
          => ~cycle_published' /\ system_state' = system_state
    /\ pc["main"] = "sleep"
          => cycle_published' = cycle_published /\ system_state' = system_state

\* C11 amended: while Idle the snapshot in the lock has is_recording = false
\* and no impulse and is not touched; only the pass of the button edge that
\* entered Idle writes the lock, an idle pass without an edge writes nothing.
C11_IdleKeepsSnapshot ==
    /\ [](pc["main"] = "sleep" =>
            /\ ~recording_enabled
            /\ ~system_state.is_recording
            /\ system_state.latest_impulse = None)
    /\ [][C11_IdleStep]_vars

\* an idle pass without a button edge, after a session that published a
\* spectrum: nothing was written in this pass
C11_Witness ==
    /\ pc["main"] = "sleep"
    /\ ~cycle_published
    /\ previous_button_state = "High"
    /\ system_state.magnitudes # ZeroSpectrum

C12_PollStep ==
    (pc["ws"] = "ws_send" /\ pc'["ws"] # "ws_send") =>
        LET data == ws_current_data[1]
            frames == ws_frames'
        IN /\ Len(frames) <= 2
           /\ Len(frames) >= 1 => frames[1].tag = 1
           /\ pc'["ws"] = "ws_read" => Len(frames) >= 1
           /\ \A k \in 1..Len(frames) :
                frames[k].tag = 2 =>
                    /\ k = 2
                    /\ data.latest_impulse # None
                    /\ frames[k].timestamp = data.latest_impulse[1].timestamp
                    /\ ws_last_sent_impulse # Some(frames[k].timestamp)

\* C12: every poll of a connection sends the spectrum frame (0x01) first; an
\* impulse frame (0x02) goes out only after it, only when the snapshot polled
\* has an impulse, and only when its timestamp differs from that of the last
\* impulse frame sent on the connection.
C12_ImpulseFrameOnce == [][C12_PollStep]_vars

\* a poll has sent the spectrum frame and then the frame of the second
\* impulse of the session
C12_Witness ==
    /\ pc["ws"] = "ws_read"
    /\ Len(impulse_log) = 2
    /\ Len(ws_frames) = 2
    /\ ws_frames[2].tag = 2
    /\ ws_frames[2].timestamp = impulse_log[2]

C13_DrawStep ==
    (pc["display"] = "display_draw" /\ pc'["display"] = "display_read") =>
        LET data == display_fft_data[1]
        IN screen' =
             IF ~data.is_recording THEN IdlePrompt
             ELSE IF data.latest_impulse # None
                  THEN <<"Coconut Type:", data.latest_impulse[1].coconut_type>>
                  ELSE screen

\* C13: for every snapshot the display obtains, the draw shows the idle
\* prompt when is_recording is false, otherwise the label of latest_impulse
\* when there is one, otherwise what was shown before.
C13_DisplayRenders == [][C13_DrawStep]_vars

\* the label of an impulse is still shown while the snapshot in the lock is
\* a later frame without an impulse
C13_Witness ==
    /\ pc["display"] = "display_read"
    /\ screen = <<"Coconut Type:", "FLESHY COCONUT">>
    /\ system_state.is_recording
    /\ system_state.latest_impulse = None

\* C14 as stated: a failed bring-up halts its own subsystem only: after a
\* failed capture bring-up the telemetry and display threads have still been
\* started, and after a failed telemetry or display bring-up the main thread
\* has neither returned nor panicked.
C14_FailureHaltsOnlyItsSubsystem ==
    /\ pc["main"] = "returned_err"
          => pc["ws"] # "unspawned" /\ pc["display"] # "unspawned"
    /\ (pc["ws"] = "panicked" \/ pc["display"] = "returned")
          => pc["main"] \notin {"returned_err", "panicked"}

C15_ReadStep ==
    pc["main"] = "read" =>
        IF pc'["main"] = "accumulate"
        THEN /\ read_copy' # None
             /\ LET c == read_copy'[1]
                    remain == FFT_LENGTH_BYTES - acc_index
                IN /\ acc_index' = acc_index
                                     + (IF c.bytes_read < remain
                                        THEN c.bytes_read ELSE remain)
                   /\ c.from = acc_index
                   /\ c.to = acc_index'
        ELSE acc_index' = acc_index

C15_CountStep ==
    acc_index' < acc_index =>
        /\ acc_index' = 0
        /\ \/ recording_enabled /\ ~recording_enabled'
           \/ pc["main"] = "publish_swap" /\ pc'["main"] = "poll"

\* C15: a read that succeeds grows the accumulated count by exactly the bytes
\* read, capped at what remains, and writes only from the old count on; a
\* read that fails leaves the count alone; the count goes down, to 0, only on
\* a toggle to Idle or after a full frame was published.
C15_ProgressKept == [][C15_ReadStep /\ C15_CountStep]_vars

\* a read error ended the accumulation with a short and a full read kept
C15_Witness ==
    /\ pc["main"] = "poll"
    /\ recording_enabled
    /\ acc_index = FREQUENCY_MAGNITUDE_LENGHT + FREQUENCY_MAGNITUDE_LENGHT \div 2

C16_FrameStep ==
    (pc["main"] = "process" /\ pc'["main"] = "publish") =>
        LET magnitude_sum == SumMag(updated_fft_data'[1].magnitudes)
        IN /\ PREV_MAGNITUDE_SUM' = magnitude_sum
           /\ delta' = Abs(magnitude_sum - SumMag(last_published.magnitudes))

\* C16: after every processed frame, triggering or not, PREV_MAGNITUDE_SUM is
\* that frame's magnitude sum, and the delta of a frame is taken against the
\* frame processed just before it, the one last published.
C16_PrevSumEveryFrame == [][C16_FrameStep]_vars

\* a frame that created no impulse has replaced the sum of the frame before
C16_Witness ==
    /\ pc["main"] = "publish"
    /\ updated_fft_data[1].latest_impulse = None
    /\ PREV_MAGNITUDE_SUM = SumMag(updated_fft_data[1].magnitudes)
    /\ PREV_MAGNITUDE_SUM # SumMag(last_published.magnitudes)
    /\ last_published.magnitudes # ZeroSpectrum

\* C17: whenever the scan chooses an interior bin, the refined dominant
\* frequency lies within one bin width of max_index * FREQ_BIN_WIDTH, that is
\* the offset p of the refinement has |p| <= 1.
C17_RefinementWithinOneBin ==
    (fn_arg # None /\ fn_arg.op = "analyse" /\ fn_ret # None) =>
        LET a == fn_ret[1]
            f == a.frequency
        IN (a.max_mag > 0 /\ a.max_index > 0
                /\ a.max_index < FREQUENCY_MAGNITUDE_LENGHT - 1)
             => Abs(f.n * BinWidthDen - a.max_index * BinWidthNum * f.d)
                  <= BinWidthNum * f.d

\* the bin above the cutoff was chosen with unequal neighbours, and the
\* refined frequency is off the centre of the bin
C17_Witness ==
    /\ fn_arg # None /\ fn_arg.op = "analyse" /\ fn_ret # None
    /\ fn_ret[1].max_index = 43
    /\ Mag(fn_arg.magnitudes, 42) > Mag(fn_arg.magnitudes, 44)
    /\ Mag(fn_arg.magnitudes, 44) > 0
    /\ fn_ret[1].frequency # BinFrequency(43)
    /\ FreqLt(fn_ret[1].frequency, FREQUENCY_CUTOFF + 8)

C18_PublishStep ==
    (pc["main"] = "publish_swap" /\ pc'["main"] = "poll") =>
        LET frame == updated_fft_data[1]
            triggered == /\ Len(impulse_log) > 0
                         /\ impulse_log[Len(impulse_log)] = now
        IN /\ system_state'.is_recording
           /\ system_state'.magnitudes = frame.magnitudes
           /\ system_state'.dominant_frequency = frame.dominant_frequency
           /\ system_state'.latest_impulse = frame.latest_impulse
           /\ system_state'.latest_impulse # None <=> triggered
           /\ triggered => system_state'.latest_impulse[1].timestamp = now

\* C18: each completed frame publishes a snapshot with is_recording = true
\* whose spectrum, dominant frequency and latest_impulse are that frame's: no
\* impulse when the frame did not trigger, whatever the snapshot before held.
C18_FramePublishesOwnImpulse == [][C18_PublishStep]_vars

\* the frame 10 ms after a triggering frame has been published, without an
\* impulse
C18_Witness ==
    /\ pc["main"] = "poll"
    /\ cycle_published
    /\ system_state.is_recording
    /\ system_state.latest_impulse = None
    /\ Len(impulse_log) = 1
    /\ now = impulse_log[1] + 10

C19_Step ==
    /\ (pc["main"] = "toggle_swap" /\ pc'["main"] \in {"accumulate", "sleep"})
          => /\ system_state'.magnitudes = system_state.magnitudes
             /\ system_state'.dominant_frequency = system_state.dominant_frequency
             /\ system_state'.is_recording = recording_enabled
             /\ system_state'.latest_impulse = None
    /\ (~recording_enabled /\ ~recording_enabled')
          => /\ system_state'.magnitudes = system_state.magnitudes
             /\ system_state'.dominant_frequency = system_state.dominant_frequency

\* C19: while Idle the producer is at no capture read and no frame
\* processing, and the spectrum and dominant frequency in the lock stay as
\* they are; a toggle publication, in either direction, republishes them
\* unmodified with the new is_recording and no impulse.
C19_IdleKeepsSpectrum ==
    /\ [](~recording_enabled =>
            pc["main"] \notin {"accumulate", "read", "process", "publish",
                                "publish_swap"})
    /\ [][C19_Step]_vars

\* the toggle to Idle has republished the spectrum of the last frame
C19_Witness ==
    /\ pc["main"] = "sleep"
    /\ cycle_published
    /\ ~system_state.is_recording
    /\ system_state.magnitudes = LowPeakSpectrum
    /\ system_state.dominant_frequency # ZeroFreq

C20_Step ==
    IF pc["main"] = "poll"
    THEN recording_enabled' =
            IF previous_button_state = "High" /\ previous_button_state' = "Low"
            THEN ~recording_enabled
            ELSE recording_enabled
    ELSE recording_enabled' = recording_enabled

\* C20: the recording state starts Idle; a poll toggles it exactly when the
\* level sampled before was High and the level sampled now is Low, and no
\* other poll and no other step changes it.
C20_ToggleOnEdgeOnly == ~recording_enabled /\ [][C20_Step]_vars

\* while Recording, with bytes of a broken-off frame kept, a poll has found
\* the button still Low and gone on accumulating
C20_Witness ==
    /\ pc["main"] = "accumulate"
    /\ read_copy = None
    /\ recording_enabled
    /\ acc_index > 0
    /\ previous_button_state = "Low"

\* the label at which thread t holds a read guard
C21_CloneLabel(t) ==
    CASE t = "main" -> "toggle_clone"
      [] t = "ws" -> "ws_clone"
      [] t = "display" -> "display_clone"

C21_Held ==
    /\ \A t \in Threads : t \in read_guards <=> pc[t] = C21_CloneLabel(t)
    /\ write_guard \in {None, Some("main")}
    /\ write_guard # None <=> pc["main"] \in {"toggle_swap", "publish_swap"}
    /\ write_guard # None => read_guards = {}
    /\ "main" \in read_guards => ENABLED ToggleClone
    /\ "ws" \in read_guards => ENABLED WsClone
    /\ "display" \in read_guards => ENABLED DisplayClone
    /\ pc["main"] = "toggle_swap" => ENABLED TogglePublish
    /\ pc["main"] = "publish_swap" => ENABLED PublishFrame

C21_Step ==
    /\ \A t \in Threads :
          (t \in read_guards /\ pc'[t] # pc[t]) => t \notin read_guards'
    /\ ("ws" \in read_guards /\ pc'["ws"] # pc["ws"])
          => ws_current_data' = Some(system_state)
    /\ ("display" \in read_guards /\ pc'["display"] # pc["display"])
          => display_fft_data' = Some(system_state)
    /\ ("main" \in read_guards /\ pc'["main"] # pc["main"])
          => current_state' = Some(system_state)
    /\ (write_guard = None /\ write_guard' # None)
          => /\ "main" \notin read_guards
             /\ pc["main"] \in {"toggle_publish", "publish"}
             /\ system_state' = system_state
    /\ (write_guard # None /\ pc'["main"] # pc["main"])
          => /\ write_guard' = None
             /\ system_state' = last_published'
    /\ system_state' # system_state => write_guard # None

\* C21: a read guard is held only at the handle clone and the write guard
\* only at the handle swap: the producer holds no guard while it accumulates,
\* reads or processes a frame and takes the write guard only after its own
\* read guard is gone; a reader holds none while it sends, draws or sleeps.
\* The step of a thread that holds a guard is the clone or the swap, it can
\* always be taken, and it gives the guard back.
C21_LockHeldForCloneOrSwap == [](C21_Held) /\ [][C21_Step]_vars

\* the producer holds the write guard for the swap of a frame's snapshot
\* while the telemetry reader waits to read and the display, its read guard
\* given back, draws from its own handle
C21_Witness ==
    /\ pc["main"] = "publish_swap"
    /\ write_guard = Some("main")
    /\ pc["ws"] = "ws_read"
    /\ pc["display"] = "display_draw"
    /\ display_fft_data # None
    /\ read_guards = {}

\* every handle to a snapshot there is: the one in the lock, the one being
\* built or swapped in, and the ones the threads hold
C22_Snapshots ==
    {system_state, last_published}
        \cup {h[1] : h \in {updated_fft_data, current_state, ws_current_data,
                            display_fft_data} \ {None}}

\* C22: every snapshot built, published or held by a reader that carries an
\* impulse has is_recording = TRUE, so none has is_recording = FALSE together
\* with an impulse; and outside the window between the toggle of the
\* recording flag and the toggle's publication, is_recording of the snapshot
\* in the lock equals the producer's recording flag.
C22_ImpulseImpliesRecording ==
    /\ \A snapshot \in C22_Snapshots :
          snapshot.latest_impulse # None => snapshot.is_recording
    /\ pc["main"] \notin {"toggle_clone", "toggle_publish", "toggle_swap"}
          => /\ system_state.is_recording = recording_enabled
             /\ last_published.is_recording = recording_enabled

\* the producer went Idle and published it while the display still holds the
\* snapshot of the frame that carried an impulse
C22_Witness ==
    /\ pc["main"] = "sleep"
    /\ ~recording_enabled
    /\ ~system_state.is_recording
    /\ system_state.latest_impulse = None
    /\ display_fft_data # None
    /\ display_fft_data[1].latest_impulse # None
    /\ display_fft_data[1].is_recording

C23_Kept ==
    /\ LAST_IMPULSE_TIME = IF impulse_log = <<>> THEN 0
                           ELSE impulse_log[Len(impulse_log)]
    /\ \A i \in 1..Len(impulse_log) : impulse_log[i] > IMPULSE_TIME_THRESHOLD
    /\ pc["main"] \notin {"publish", "publish_swap"}
          => PREV_MAGNITUDE_SUM = SumMag(system_state.magnitudes)

C23_Step ==
    /\ (PREV_MAGNITUDE_SUM' # PREV_MAGNITUDE_SUM
            \/ LAST_IMPULSE_TIME' # LAST_IMPULSE_TIME)
          => pc["main"] = "process" /\ pc'["main"] = "publish"
    /\ recording_enabled' # recording_enabled
          => /\ PREV_MAGNITUDE_SUM' = PREV_MAGNITUDE_SUM
             /\ LAST_IMPULSE_TIME' = LAST_IMPULSE_TIME
    /\ (pc["main"] = "process" /\ pc'["main"] = "publish")
          => LET frame == updated_fft_data'[1]
             IN /\ delta' = Abs(SumMag(frame.magnitudes) - PREV_MAGNITUDE_SUM)
                /\ now' - LAST_IMPULSE_TIME <= IMPULSE_TIME_THRESHOLD
                      => frame.latest_impulse = None

\* C23: PREV_MAGNITUDE_SUM and LAST_IMPULSE_TIME change only when the
\* producer processes a frame, and no toggle of the recording state resets
\* them: outside a frame's publication PREV_MAGNITUDE_SUM is the sum of the
\* spectrum in the lock, the last frame's whatever session it was of, and
\* LAST_IMPULSE_TIME is the timestamp of the last ImpulseData, 0 before the
\* first; every frame, the first of a session too, takes its delta against
\* that sum and creates no impulse within IMPULSE_TIME_THRESHOLD of that
\* timestamp, so no ImpulseData has a timestamp <= IMPULSE_TIME_THRESHOLD.
C23_DetectorSurvivesToggle == [](C23_Kept) /\ [][C23_Step]_vars

\* the first frame of a new session, processed in the pass of the toggle to
\* Recording 10 ms after the impulse of the session before: its delta
\* against that session's last frame and its frequency pass their tests and
\* no ImpulseData is created
C23_Witness ==
    /\ pc["main"] = "publish"
    /\ cycle_published
    /\ last_published.is_recording
    /\ last_published.latest_impulse = None
    /\ Len(impulse_log) = 1
    /\ now = impulse_log[1] + 10
    /\ delta = Abs(SumMag(updated_fft_data[1].magnitudes)
                     - SumMag(last_published.magnitudes))
    /\ delta > IMPULSE_THRESHOLD
    /\ FreqGt(updated_fft_data[1].dominant_frequency, MIN_IMPULSE_FREQUENCY)
    /\ updated_fft_data[1].latest_impulse = None

====
